---- MODULE Spec2Model ----
(***************************************************************************)
(* LifeShield: quote/policy issuance and POLICY_ISSUED notification, as    *)
(* laid down in the repository's design documents (DetailedDesign.md,      *)
(* HighLevelDesign.md, the use cases and the functional requirements).     *)
(*                                                                         *)
(* Spec          the Policy Service: POST /quotes, POST /quotes/:id/accept *)
(*               (fetch, check, transaction, publish, respond), the quote  *)
(*               expiry sweep, the clock and a process crash.              *)
(* ConsumerSpec  the SQS queue and the Notification Service worker loop    *)
(*               (receiveMessage, handleMessage, deleteMessage).           *)
(* ConcurrentSpec  Spec with a second quote and two accept requests.       *)
(* OutboxSpec    the event outbox and the Publisher's drain() of the       *)
(*               requirements specification (the design documents have no  *)
(*               outbox); OutboxLiveSpec is its fair, fault-free variant.  *)
(* PricingSpec   POST /quotes alone, over customers of every risk profile  *)
(*               and a range of coverage amounts (calculatePremium).       *)
(* DirectSpec    calculatePremium called directly with any arguments.      *)
(* HttpSpec      the lifeshield-api middleware chain (request id, timing,  *)
(*               /health, /metrics, error handler) and its HTTP metrics.   *)
(* ConsumerLiveSpec  the worker loop with failing receive calls, under     *)
(*               fair polling.                                             *)
(***************************************************************************)
EXTENDS Integers, Sequences, FiniteSets, Bags, TLC

(* ------------------------------ bounds -------------------------------- *)
\* number of quote rows the model lets POST /quotes create
NumQuotes == 1
\* number of POST /quotes/:id/accept requests (they may overlap)
NumReq == 2
\* the clock (Date.now(), today) runs over 1..MaxTime
MaxTime == 2
\* number of messages the queue ever holds in ConsumerSpec
MaxMsgs == 2
\* SQS maxReceiveCount: deliveries of one message before it is parked
MaxReceive == 2
\* number of failed deliveries the worker goes through in ConsumerSpec
MaxFailed == 2

\* number of quote rows POST /quotes creates in PricingSpec
NumPricedQuotes == 2

\* number of OutboxEvent rows in OutboxSpec
MaxOutbox == 3
\* number of rows one drain() selects
BatchSize == 2

\* number of HTTP requests lifeshield-api serves in HttpSpec
MaxHttp == 2

\* FR-7: the age (in clock ticks) after which a PENDING quote may be expired
ExpireAge == 0

VARIABLES
    quotes,          \* table quotes: sequence of rows, id = index (autoIncrement)
    policies,        \* table policies: sequence of rows, id = index
    now,             \* the clock
    req,             \* the accept requests begun: a bag of request contexts
    queue,           \* the SQS queue: sequence of messages, id = index
    lastCreate,      \* outcome of the last POST /quotes
    metrics,         \* the domain counters
    consumer,        \* the worker loop: position, current batch
    sent,            \* welcome e-mails "sent" (logged): a bag of policyIds
    notificationLog, \* table notification_logs (optional DB logging): a bag of rows
    dbLogging,       \* whether the optional NotificationLog.create is enabled
    customers,       \* Customer Service: risk factors of each existing customer
    outbox,          \* table outbox_events: sequence of rows, id = index
    publisher,       \* the Publisher's drain(): position, current batch
    priced,          \* the last direct call of calculatePremium and its outcome
    http             \* lifeshield-api: the request in the middleware chain,
                     \* and the http_requests_total / duration metrics

vars == <<quotes, policies, now, req, queue, lastCreate, metrics,
          consumer, sent, notificationLog, dbLogging, customers, outbox, publisher, priced, http>>

\* the worker's variables and those no operation of the Policy Service writes
consumerVars == <<consumer, sent, notificationLog, dbLogging, customers, outbox, publisher, priced, http>>

\* customer ids known to the Customer Service, and the ids a caller may send
Customers == {1}
CustomerIds == {1, 2}
CoverageAmounts == {0, 1}
TermYearsValues == {0, 1}

\* the risk factors a customer may have (age in years), and those of the
\* customer of Spec and ConsumerSpec
Ages == {18, 30, 31, 35, 40, 41, 50, 51, 65}
OccupationRisks == {"LOW", "MEDIUM", "HIGH"}
CustomerDetails == [age : Ages, smoker : BOOLEAN, occupationRisk : OccupationRisks]
DefaultCustomer == [age |-> 35, smoker |-> FALSE, occupationRisk |-> "LOW"]
\* the coverage amounts requested in PricingSpec
PricingCoverageAmounts == {0, 80, 120, 800, 10000000}

(* ------------------------------ helpers ------------------------------- *)
\* rows of a table as a set of ids
Ids(table) == 1..Len(table)

\* (mutant) the term is not added
AddYears_NoTerm(d, n) == d

\* startDate + termYears (dates counted in years)
AddYears(d, n) == d + n

\* (mutant) the policy number is made of the time stamp alone
PolicyNumber_NoQuoteId(t, quoteId) == <<"LS", t, 0>>

\* "LS-" + Date.now() + "-" + quote.id
PolicyNumber(t, quoteId) == <<"LS", t, quoteId>>

PoliciesOfQuote(q) == {p \in Ids(policies) : policies[p].quoteId = q}

\* the message body the Policy Service publishes for a policy
PolicyIssuedBody(p, c) ==
    [wellFormed |-> TRUE, type |-> "POLICY_ISSUED", policyId |-> p, customerId |-> c]

\* sqs.sendMessage: the message becomes available for delivery
sqsSend(q, body) ==
    Append(q, [body |-> body, state |-> "visible", receives |-> 0])

MessagesOfPolicy(p) ==
    {m \in Ids(queue) : queue[m].body.wellFormed
                        /\ queue[m].body.type = "POLICY_ISSUED"
                        /\ queue[m].body.policyId = p}

\* a request context: where the handler stands, and its locals
NewReq(q) == [pc |-> "txn", quoteId |-> q, txnPolicy |-> <<>>, txnQuote |-> FALSE,
              policyId |-> 0, result |-> "NONE"]
DoneReq(q, result, p) ==
    [pc |-> "done", quoteId |-> q, txnPolicy |-> <<>>, txnQuote |-> FALSE,
     policyId |-> p, result |-> result]
CrashedReq(x) ==
    [pc |-> "crashed", quoteId |-> x.quoteId, txnPolicy |-> <<>>, txnQuote |-> FALSE,
     policyId |-> x.policyId, result |-> "NONE"]

\* the request contexts, and those of them that satisfy a condition
Reqs == BagToSet(req)
InFlight(x) == x.pc \notin {"done", "crashed"}
\* the handler of context x moves on to y
Step(x, y) == (req (-) SetToBag({x})) (+) SetToBag({y})
\* how many request contexts are in the set S of contexts
RECURSIVE Count(_)
Count(S) == IF S = {} THEN 0
            ELSE LET x == CHOOSE x \in S : TRUE
                 IN CopiesIn(x, req) + Count(S \ {x})

(* ------------------------------ pricing ------------------------------- *)
\* baseRate = 0.0005 = 1 / BaseRatePer: base monthly rate per unit coverage
BaseRatePer == 2000

\* the risk factor terms, in hundredths
\* (mutant) the age brackets include their lower limits
AgeRisk_Inclusive(age) ==
    IF age >= 50 THEN 30 ELSE IF age >= 40 THEN 20 ELSE IF age >= 30 THEN 10 ELSE 0

\* if (age > 50) += 0.3; else if (age > 40) += 0.2; else if (age > 30) += 0.1
AgeRisk(age) ==
    IF age > 50 THEN 30 ELSE IF age > 40 THEN 20 ELSE IF age > 30 THEN 10 ELSE 0

\* if (smoker) += 0.5
SmokerRisk(smoker) == IF smoker THEN 50 ELSE 0

\* (mutant) the HIGH surcharge is below the MEDIUM one
OccupationRiskTerm_HighBelowMedium(occupationRisk) ==
    (IF occupationRisk = "MEDIUM" THEN 10 ELSE 0)
    + (IF occupationRisk = "HIGH" THEN 5 ELSE 0)

\* if (occupationRisk === 'MEDIUM') += 0.1; if (=== 'HIGH') += 0.25
OccupationRiskTerm(occupationRisk) ==
    (IF occupationRisk = "MEDIUM" THEN 10 ELSE 0)
    + (IF occupationRisk = "HIGH" THEN 25 ELSE 0)

\* the amount num / den (den even), in cents, rounded half-up to whole cents
roundToTwoDecimals(num, den) == (num + den \div 2) \div den

\* pricingService.calculatePremium: the monthly premium in cents.
\* riskFactor is kept in hundredths, so the premium in cents is
\* coverageAmount * (1 / BaseRatePer) * (riskFactor / 100) / 12 * 100
calculatePremium(customer, coverageAmount, termYears) ==
    LET riskFactor == 100 + AgeRisk(customer.age) + SmokerRisk(customer.smoker)
                          + OccupationRiskTerm(customer.occupationRisk)
    IN roundToTwoDecimals(coverageAmount * riskFactor, BaseRatePer * 12)

(* ------------------ calculatePremium called directly ------------------ *)
\* the arguments of a direct call of pricingService.calculatePremium
DirectCoverageAmounts == {-240000, 0, 240000}
DirectTermYears == {-1, 0, 1}

\* a caller applies calculatePremium to the risk factors of customer c: the
\* function has no throw statement, it returns the rounded product
callCalculatePremium(c, coverageAmount, termYears) ==
    /\ priced' = [called |-> TRUE,
                  customerId |-> c,
                  coverageAmount |-> coverageAmount,
                  termYears |-> termYears,
                  threw |-> FALSE,
                  premium |-> calculatePremium(customers[c], coverageAmount,
                                               termYears)]
    /\ UNCHANGED <<quotes, policies, now, req, queue, lastCreate, metrics, http>>
    /\ UNCHANGED <<consumer, sent, notificationLog, dbLogging, customers,
                   outbox, publisher>>

(* --------------------------- lifeshield-api --------------------------- *)
\* JavaScript values of a header: undefined, or a string (a tuple of tokens;
\* the empty string is the empty tuple)
JsUndefined == [type |-> "undefined", value |-> <<>>]
JsString(s) == [type |-> "string", value |-> s]

\* the requests a client may send
HttpMethods == {"GET", "POST", "OPTIONS"}
HttpPaths == {"/health", "/metrics", "/nope"}
HeaderValues == {JsUndefined, JsString(<<>>), JsString(<<"client">>)}
HttpBodies == {"none", "malformed"}

\* (mutant) the nullish operator ??: only undefined is replaced
JsOr_Nullish(a, b) == IF a.type # "undefined" THEN a ELSE b

\* a || b: undefined and the empty string are falsy
JsOr(a, b) == IF a.type = "string" /\ a.value # <<>> THEN a ELSE b

\* uuidv4(): the k-th generated id, different from every other one
uuidv4(k) == JsString(<<"uuid", k>>)

\* String(status)
StatusString(status) ==
    CASE status = 200 -> "200"
      [] status = 204 -> "204"
      [] status = 404 -> "404"
      [] status = 500 -> "500"

\* the variables lifeshield-api leaves alone
notHttpVars == <<quotes, policies, now, req, queue, lastCreate, metrics,
                 consumer, sent, notificationLog, dbLogging, customers,
                 outbox, publisher, priced>>

\* createApp(): no request yet, both metrics empty; res.statusCode is 200
\* until a handler sets it
HttpInit ==
    [pc |-> "idle", served |-> 0,
     method |-> "GET", path |-> "/health", header |-> JsUndefined, body |-> "none",
     requestId |-> JsUndefined, resHeader |-> JsUndefined, nextCalls |-> 0,
     uuids |-> 0, timed |-> FALSE, listeners |-> 0, route |-> "",
     statusCode |-> 200, errorCode |-> "",
     requestsTotal |-> EmptyBag, durations |-> EmptyBag]

\* a request arrives: fresh req and res objects; helmet() only sets headers
httpRequest(method, path, header, body) ==
    /\ http.pc = "idle"
    /\ http' = [http EXCEPT !.pc = "cors", !.served = @ + 1,
                            !.method = method, !.path = path,
                            !.header = header, !.body = body,
                            !.requestId = JsUndefined, !.resHeader = JsUndefined,
                            !.nextCalls = 0, !.timed = FALSE, !.listeners = 0,
                            !.route = "", !.statusCode = 200, !.errorCode = ""]
    /\ UNCHANGED notHttpVars

\* cors(): a preflight request is answered 204 here, the chain ends
cors ==
    /\ http.pc = "cors"
    /\ http' = IF http.method = "OPTIONS"
               THEN [http EXCEPT !.pc = "finish", !.statusCode = 204]
               ELSE [http EXCEPT !.pc = "json"]
    /\ UNCHANGED notHttpVars

\* express.json(): a body that is not JSON goes to the error handler
expressJson ==
    /\ http.pc = "json"
    /\ http' = IF http.body = "malformed"
               THEN [http EXCEPT !.pc = "error"]
               ELSE [http EXCEPT !.pc = "requestId"]
    /\ UNCHANGED notHttpVars

\* requestIdMiddleware, followed by expressWinston.logger (which only logs)
requestIdMiddleware ==
    /\ http.pc = "requestId"
    /\ LET existing == http.header
           requestId == JsOr(existing, uuidv4(http.uuids + 1))
       IN http' = [http EXCEPT !.requestId = requestId,
                               !.resHeader = requestId,
                               !.uuids = IF requestId = existing THEN @ ELSE @ + 1,
                               !.nextCalls = @ + 1,
                               !.pc = "timing"]
    /\ UNCHANGED notHttpVars

\* observeRequest(method, route, status, durationSeconds) called k times
observeRequest(h, method, route, status, k) ==
    IF k = 0 THEN h
    ELSE [h EXCEPT
            !.requestsTotal = @ (+) [x \in {<<method, route, StatusString(status)>>} |-> k],
            !.durations = @ (+) [x \in {<<method, route>>} |-> k]]

\* (mutant) the timing middleware observes the request when it comes in
timingMiddleware_ObservesAtEntry ==
    /\ http.pc = "timing"
    /\ http' = observeRequest([http EXCEPT !.timed = TRUE, !.pc = "routes"],
                              http.method, http.path, http.statusCode, 1)
    /\ UNCHANGED notHttpVars

\* the timing middleware: res.on('finish', ...), next()
timingMiddleware ==
    /\ http.pc = "timing"
    /\ http' = [http EXCEPT !.timed = TRUE, !.listeners = @ + 1, !.pc = "routes"]
    /\ UNCHANGED notHttpVars

\* router.get('/health'): 200 with status OK
healthRouter ==
    /\ http.pc = "routes"
    /\ http.method = "GET" /\ http.path = "/health"
    /\ http' = [http EXCEPT !.route = "/health", !.statusCode = 200, !.pc = "finish"]
    /\ UNCHANGED notHttpVars

\* app.get('/metrics', metricsHandler): the metrics text; or register.metrics()
\* rejects, and the rejection reaches the error handler (forwarded) or
\* nobody, so that the response is never ended
metricsHandler(outcome) ==
    /\ http.pc = "routes"
    /\ http.method = "GET" /\ http.path = "/metrics"
    /\ http' = [http EXCEPT !.route = "/metrics",
                            !.pc = CASE outcome = "ok" -> "finish"
                                     [] outcome = "forwarded" -> "error"
                                     [] outcome = "unhandled" -> "hung"]
    /\ UNCHANGED notHttpVars

\* no route matches: express answers 404
notFound ==
    /\ http.pc = "routes"
    /\ ~(http.method = "GET" /\ http.path \in {"/health", "/metrics"})
    /\ http' = [http EXCEPT !.statusCode = 404, !.pc = "finish"]
    /\ UNCHANGED notHttpVars

\* the error handler: 500 INTERNAL_ERROR
errorHandler ==
    /\ http.pc = "error"
    /\ http' = [http EXCEPT !.statusCode = 500, !.errorCode = "INTERNAL_ERROR",
                            !.pc = "finish"]
    /\ UNCHANGED notHttpVars

\* req.route && req.route.path ? req.route.path : req.path
RouteLabel == IF http.route # "" THEN http.route ELSE http.path

\* the response has been handed to the operating system: 'finish' is emitted
\* and every listener registered on res runs
resFinish ==
    /\ http.pc = "finish"
    /\ http' = observeRequest([http EXCEPT !.pc = "idle"], http.method, RouteLabel,
                              http.statusCode, http.listeners)
    /\ UNCHANGED notHttpVars

\* the connection of a request that is never answered is closed: no 'finish'
connectionClose ==
    /\ http.pc = "hung"
    /\ http' = [http EXCEPT !.pc = "idle"]
    /\ UNCHANGED notHttpVars

(* ------------------------------- Init --------------------------------- *)
\* the state after start-up, the Customer Service holding the table cs
InitWith(cs) ==
    /\ customers = cs
    /\ quotes = <<>>
    /\ policies = <<>>
    /\ now = 1
    /\ req = EmptyBag
    /\ queue = <<>>
    /\ lastCreate = "NONE"
    /\ metrics = [quotesCreated |-> 0, policiesIssued |-> 0,
                  processed |-> 0, failed |-> 0]
    /\ consumer = [pc |-> "poll", batch |-> <<>>]
    /\ sent = EmptyBag
    /\ notificationLog = EmptyBag
    /\ dbLogging \in BOOLEAN
    /\ outbox = <<>>
    /\ publisher = [pc |-> "idle", batch |-> <<>>]
    /\ priced = [called |-> FALSE, customerId |-> 0, coverageAmount |-> 0,
                 termYears |-> 0, threw |-> FALSE, premium |-> 0]
    /\ http = HttpInit

Init == InitWith([c \in Customers |-> DefaultCustomer])

\* start-up with customers of any risk profile
PricingInit == \E cs \in [Customers -> CustomerDetails] : InitWith(cs)

(* --------------------------- POST /quotes ----------------------------- *)
\* (mutant) step 1, the validation of the request body, is missing
createQuote_NoValidation(customerId, coverageAmount, termYears) ==
    /\ IF customerId \notin Customers
       THEN /\ lastCreate' = "CUSTOMER_NOT_FOUND"
            /\ UNCHANGED <<quotes, metrics>>
       ELSE /\ quotes' = Append(quotes, [customerId |-> customerId,
                                         coverageAmount |-> coverageAmount,
                                         termYears |-> termYears,
                                         monthlyPremium |->
                                            calculatePremium(customers[customerId],
                                               coverageAmount, termYears),
                                         status |-> "PENDING",
                                         createdAt |-> now])
            /\ metrics' = [metrics EXCEPT !.quotesCreated = @ + 1]
            /\ lastCreate' = "CREATED"
    /\ UNCHANGED <<policies, now, req, queue>>
    /\ UNCHANGED consumerVars

\* validation, customer lookup, pricing, Quote.create with status PENDING
createQuote(customerId, coverageAmount, termYears) ==
    /\ IF coverageAmount <= 0 \/ termYears <= 0
       THEN /\ lastCreate' = "INVALID_INPUT"
            /\ UNCHANGED <<quotes, metrics>>
       ELSE IF customerId \notin Customers
       THEN /\ lastCreate' = "CUSTOMER_NOT_FOUND"
            /\ UNCHANGED <<quotes, metrics>>
       ELSE /\ quotes' = Append(quotes, [customerId |-> customerId,
                                         coverageAmount |-> coverageAmount,
                                         termYears |-> termYears,
                                         monthlyPremium |->
                                            calculatePremium(customers[customerId],
                                               coverageAmount, termYears),
                                         status |-> "PENDING",
                                         createdAt |-> now])
            /\ metrics' = [metrics EXCEPT !.quotesCreated = @ + 1]
            /\ lastCreate' = "CREATED"
    /\ UNCHANGED <<policies, now, req, queue>>
    /\ UNCHANGED consumerVars

(* --------------------- POST /quotes/:id/accept ------------------------ *)
\* (mutant) step 4, the status check, is missing
AcceptFetch_NoStatusCheck(q) ==
    /\ req' = req (+) SetToBag({
                IF q \notin Ids(quotes) THEN DoneReq(q, "NOT_FOUND", 0)
                ELSE NewReq(q)})
    /\ UNCHANGED <<quotes, policies, now, queue, lastCreate, metrics>>
    /\ UNCHANGED consumerVars

\* steps 1-4: fetch the quote; 404 if absent, 409 if its status is not PENDING
AcceptFetch(q) ==
    /\ req' = req (+) SetToBag({
                IF q \notin Ids(quotes) THEN DoneReq(q, "NOT_FOUND", 0)
                ELSE IF quotes[q].status # "PENDING" THEN DoneReq(q, "CONFLICT", 0)
                ELSE NewReq(q)})
    /\ UNCHANGED <<quotes, policies, now, queue, lastCreate, metrics>>
    /\ UNCHANGED consumerVars

\* step 5, first write of the transaction: Policy.create (not yet committed)
AcceptCreatePolicy(x) ==
    /\ x.pc = "txn"
    /\ LET q == x.quoteId
           row == [policyNumber |-> PolicyNumber(now, q),
                   customerId |-> quotes[q].customerId,
                   quoteId |-> q,
                   startDate |-> now,
                   endDate |-> AddYears(now, quotes[q].termYears),
                   status |-> "ACTIVE"]
       IN req' = Step(x, [x EXCEPT !.pc = "created", !.txnPolicy = <<row>>])
    /\ UNCHANGED <<quotes, policies, now, queue, lastCreate, metrics>>
    /\ UNCHANGED consumerVars

\* step 5, second write of the transaction: quote status := ACCEPTED
AcceptUpdateQuote(x) ==
    /\ x.pc = "created"
    /\ req' = Step(x, [x EXCEPT !.pc = "updated", !.txnQuote = TRUE])
    /\ UNCHANGED <<quotes, policies, now, queue, lastCreate, metrics>>
    /\ UNCHANGED consumerVars

\* (mutant) policies.policyNumber has no unique index
UniqueViolation_NoIndex(row) == FALSE

\* the unique index on policies.policyNumber
UniqueViolation(row) ==
    \E p \in Ids(policies) : policies[p].policyNumber = row.policyNumber

\* (mutant) Policy.create runs outside the transaction: its row stays when
\* the transaction is rolled back
RolledBack_KeepsPolicy(x) ==
    /\ policies' = IF x.txnPolicy = <<>> THEN policies
                   ELSE Append(policies, x.txnPolicy[1])
    /\ quotes' = quotes

\* the tables after the transaction of context x is rolled back: as before it
RolledBack(x) ==
    /\ policies' = policies
    /\ quotes' = quotes

\* the tables after the transaction of context x commits: its buffered
\* writes (the policy row, the quote's new status) become visible together
Committed(x) ==
    /\ policies' = Append(policies, x.txnPolicy[1])
    /\ quotes' = [quotes EXCEPT ![x.quoteId].status = "ACCEPTED"]

\* step 6: commit; or the unique index rejects the insert, the transaction
\* rolls back and the request is answered 500
AcceptCommit(x) ==
    /\ x.pc = "updated"
    /\ IF UniqueViolation(x.txnPolicy[1])
       THEN /\ RolledBack(x)
            /\ req' = Step(x, DoneReq(x.quoteId, "ERROR", 0))
       ELSE /\ Committed(x)
            /\ req' = Step(x, [x EXCEPT !.pc = "committed",
                                        !.policyId = Len(policies) + 1,
                                        !.txnPolicy = <<>>, !.txnQuote = FALSE])
    /\ UNCHANGED <<now, queue, lastCreate, metrics>>
    /\ UNCHANGED consumerVars

\* (mutant) the event is published inside the transaction, before the commit:
\* a transaction that fails after Policy.create has already sent it
AcceptTxnFail_EventBeforeCommit(x) ==
    /\ x.pc \in {"txn", "created", "updated"}
    /\ RolledBack(x)
    /\ req' = Step(x, DoneReq(x.quoteId, "DB_ERROR", 0))
    /\ queue' = IF x.txnPolicy = <<>> THEN queue
                ELSE sqsSend(queue, PolicyIssuedBody(Len(policies) + 1,
                                                     x.txnPolicy[1].customerId))
    /\ UNCHANGED <<now, lastCreate, metrics>>
    /\ UNCHANGED consumerVars

\* UC-4 4a: a database error inside the transaction (at the insert, the update
\* or the commit): roll back and answer 500
AcceptTxnFail(x) ==
    /\ x.pc \in {"txn", "created", "updated"}
    /\ RolledBack(x)
    /\ req' = Step(x, DoneReq(x.quoteId, "DB_ERROR", 0))
    /\ UNCHANGED <<now, queue, lastCreate, metrics>>
    /\ UNCHANGED consumerVars

\* (mutant) step 7 is deferred: the handler goes on to answer, nothing is sent
AcceptPublish_Deferred(x) ==
    /\ x.pc = "committed"
    /\ req' = Step(x, [x EXCEPT !.pc = "published"])
    /\ UNCHANGED <<quotes, policies, now, queue, lastCreate, metrics>>
    /\ UNCHANGED consumerVars

\* step 7: publish POLICY_ISSUED to SQS via sqsPublisher
AcceptPublish(x) ==
    /\ x.pc = "committed"
    /\ queue' = sqsSend(queue, PolicyIssuedBody(x.policyId,
                                                policies[x.policyId].customerId))
    /\ req' = Step(x, [x EXCEPT !.pc = "published"])
    /\ UNCHANGED <<quotes, policies, now, lastCreate, metrics>>
    /\ UNCHANGED consumerVars

\* steps 8-9: policies_issued_total++, 201 Created with the policy
AcceptRespond(x) ==
    /\ x.pc = "published"
    /\ metrics' = [metrics EXCEPT !.policiesIssued = @ + 1]
    /\ req' = Step(x, DoneReq(x.quoteId, "POLICY", x.policyId))
    /\ UNCHANGED <<quotes, policies, now, queue, lastCreate>>
    /\ UNCHANGED consumerVars

\* the process terminates while context x is in flight: the request gets no
\* answer, its open transaction is rolled back by the database, committed
\* rows stay
Crash(x) ==
    /\ InFlight(x)
    /\ RolledBack(x)
    /\ req' = Step(x, CrashedReq(x))
    /\ UNCHANGED <<now, queue, lastCreate, metrics>>
    /\ UNCHANGED consumerVars

(* --------------------------- expiry sweep ----------------------------- *)
\* FR-7: mark a PENDING quote EXPIRED once it is older than ExpireAge;
\* the update is conditioned on the row still being PENDING
expireQuote(q) ==
    /\ q \in Ids(quotes)
    /\ quotes[q].status = "PENDING"
    /\ now - quotes[q].createdAt > ExpireAge
    /\ quotes' = [quotes EXCEPT ![q].status = "EXPIRED"]
    /\ UNCHANGED <<policies, now, req, queue, lastCreate, metrics>>
    /\ UNCHANGED consumerVars

\* time passes
Tick ==
    /\ now < MaxTime
    /\ now' = now + 1
    /\ UNCHANGED <<quotes, policies, req, queue, lastCreate, metrics>>
    /\ UNCHANGED consumerVars

(* ------------------------------ the queue ----------------------------- *)
\* MaxNumberOfMessages of receiveMessage
MaxNumberOfMessages == 10

\* bodies that arrive on the queue, each once: POLICY_ISSUED for policy 1 and
\* for policy 2 (published by the Policy Service, in the order of the policy
\* ids), a type the worker does not know, and a body that is not JSON
UnknownTypeBody ==
    [wellFormed |-> TRUE, type |-> "POLICY_CANCELLED", policyId |-> 0, customerId |-> 0]
MalformedBody ==
    [wellFormed |-> FALSE, type |-> "", policyId |-> 0, customerId |-> 0]
Bodies == {PolicyIssuedBody(p, 1) : p \in {1, 2}} \cup {UnknownTypeBody, MalformedBody}

\* a producer sends a message
Enqueue(body) ==
    /\ \A m \in Ids(queue) : queue[m].body # body
    /\ body.type = "POLICY_ISSUED" =>
          \A p \in 1..(body.policyId - 1) : MessagesOfPolicy(p) # {}
    /\ queue' = sqsSend(queue, body)
    /\ UNCHANGED <<quotes, policies, now, req, lastCreate, metrics>>
    /\ UNCHANGED consumerVars

\* a sequence of the elements of a set of message ids, in id order
RECURSIVE InOrder(_)
InOrder(S) == IF S = {} THEN <<>>
              ELSE LET m == CHOOSE m \in S : \A k \in S : m <= k
                   IN <<m>> \o InOrder(S \ {m})

SeqToSet(sq) == {sq[i] : i \in 1..Len(sq)}

\* (mutant) the redrive policy parks a message one delivery too late
VisibilityTimeout_OneMore(m) ==
    /\ queue[m].state = "inflight"
    /\ m \notin SeqToSet(consumer.batch)
    /\ queue' = [queue EXCEPT ![m].state =
                    IF queue[m].receives <= MaxReceive THEN "visible" ELSE "dlq"]
    /\ UNCHANGED <<quotes, policies, now, req, lastCreate, metrics>>
    /\ UNCHANGED consumerVars

\* the visibility timeout of a delivered, undeleted message runs out: the
\* message is delivered again, or parked once it was received MaxReceive times
VisibilityTimeout(m) ==
    /\ queue[m].state = "inflight"
    /\ m \notin SeqToSet(consumer.batch)
    /\ queue' = [queue EXCEPT ![m].state =
                    IF queue[m].receives < MaxReceive THEN "visible" ELSE "dlq"]
    /\ UNCHANGED <<quotes, policies, now, req, lastCreate, metrics>>
    /\ UNCHANGED consumerVars

(* ----------------------- Notification Service ------------------------- *)
\* JSON.parse(msg.Body): the payload, or a SyntaxError
ParseFails(body) == ~body.wellFormed

\* the loop goes on to the next message of the batch, or polls again
NextMessage == IF Len(consumer.batch) > 1
               THEN [pc |-> "handle", batch |-> Tail(consumer.batch)]
               ELSE [pc |-> "poll", batch |-> <<>>]

\* the model lets a database write or a delete call fail while fewer than
\* MaxFailed failures have been counted
FaultAllowed == metrics.failed < MaxFailed

\* the inner catch: log, metrics.incrementFailed(), no delete
Failed ==
    /\ metrics' = [metrics EXCEPT !.failed = @ + 1]
    /\ consumer' = NextMessage

\* poll: sqs.receiveMessage returns a non-empty batch S of available messages
receiveMessage(S) ==
    /\ consumer.pc = "poll"
    /\ S # {}
    /\ Cardinality(S) <= MaxNumberOfMessages
    /\ \A m \in S : queue[m].state = "visible"
    /\ queue' = [m \in Ids(queue) |->
                    IF m \in S THEN [queue[m] EXCEPT !.state = "inflight",
                                                     !.receives = @ + 1]
                    ELSE queue[m]]
    /\ consumer' = [pc |-> "handle", batch |-> InOrder(S)]
    /\ UNCHANGED <<quotes, policies, now, req, lastCreate, metrics>>
    /\ UNCHANGED <<sent, notificationLog, dbLogging, customers, outbox, publisher, priced, http>>

\* (mutant) a type the worker does not know is thrown as an error
handleMessage_UnknownTypeThrows ==
    /\ consumer.pc = "handle"
    /\ LET m == Head(consumer.batch)
           body == queue[m].body
       IN IF ParseFails(body) \/ body.type # "POLICY_ISSUED"
          THEN /\ Failed
               /\ UNCHANGED sent
          ELSE /\ sent' = sent (+) SetToBag({body.policyId})
               /\ consumer' = [consumer EXCEPT !.pc = IF dbLogging THEN "log"
                                                       ELSE "delete"]
               /\ UNCHANGED metrics
    /\ UNCHANGED <<quotes, policies, now, req, lastCreate, queue>>
    /\ UNCHANGED <<notificationLog, dbLogging, customers, outbox, publisher, priced, http>>

\* handleMessage: parse, dispatch on body.type; handlePolicyIssued logs the
\* welcome e-mail (the notification side effect)
handleMessage ==
    /\ consumer.pc = "handle"
    /\ LET m == Head(consumer.batch)
           body == queue[m].body
       IN IF ParseFails(body)
          THEN /\ Failed
               /\ UNCHANGED sent
          ELSE IF body.type = "POLICY_ISSUED"
          THEN /\ sent' = sent (+) SetToBag({body.policyId})
               /\ consumer' = [consumer EXCEPT !.pc = IF dbLogging THEN "log"
                                                       ELSE "delete"]
               /\ UNCHANGED metrics
          ELSE /\ consumer' = [consumer EXCEPT !.pc = "delete"]
               /\ UNCHANGED <<sent, metrics>>
    /\ UNCHANGED <<quotes, policies, now, req, lastCreate, queue>>
    /\ UNCHANGED <<notificationLog, dbLogging, customers, outbox, publisher, priced, http>>

\* sqs.receiveMessage throws: the outer catch logs the error
receiveMessageFail ==
    /\ consumer.pc = "poll"
    /\ consumer' = [pc |-> "delay", batch |-> <<>>]
    /\ UNCHANGED <<quotes, policies, now, req, lastCreate, queue, metrics>>
    /\ UNCHANGED <<sent, notificationLog, dbLogging, customers, outbox, publisher, priced, http>>

\* await delay(5000), then the while loop polls again
delay ==
    /\ consumer.pc = "delay"
    /\ consumer' = [pc |-> "poll", batch |-> <<>>]
    /\ UNCHANGED <<quotes, policies, now, req, lastCreate, queue, metrics>>
    /\ UNCHANGED <<sent, notificationLog, dbLogging, customers, outbox, publisher, priced, http>>

\* handlePolicyIssued, optional DB logging: NotificationLog.create
logNotification ==
    /\ consumer.pc = "log"
    /\ LET body == queue[Head(consumer.batch)].body
       IN notificationLog' = notificationLog (+) SetToBag({
              [type |-> "POLICY_ISSUED", policyId |-> body.policyId,
               customerId |-> body.customerId, status |-> "SENT"]})
    /\ consumer' = [consumer EXCEPT !.pc = "delete"]
    /\ UNCHANGED <<quotes, policies, now, req, lastCreate, queue, metrics>>
    /\ UNCHANGED <<sent, dbLogging, customers, outbox, publisher, priced, http>>

\* UC-7 3a: database failure while logging the notification
logNotificationFail ==
    /\ consumer.pc = "log"
    /\ FaultAllowed
    /\ Failed
    /\ UNCHANGED <<quotes, policies, now, req, lastCreate, queue>>
    /\ UNCHANGED <<sent, notificationLog, dbLogging, customers, outbox, publisher, priced, http>>

\* sqs.deleteMessage, metrics.incrementProcessed(); the queue forgets the
\* message and its receive count
deleteMessage ==
    /\ consumer.pc = "delete"
    /\ queue' = [queue EXCEPT ![Head(consumer.batch)].state = "deleted",
                              ![Head(consumer.batch)].receives = 0]
    /\ metrics' = [metrics EXCEPT !.processed = @ + 1]
    /\ consumer' = NextMessage
    /\ UNCHANGED <<quotes, policies, now, req, lastCreate>>
    /\ UNCHANGED <<sent, notificationLog, dbLogging, customers, outbox, publisher, priced, http>>

\* (mutant) the failure of a delete is not caught per message: it reaches
\* the outer catch and the rest of the batch is dropped
deleteMessageFail_OuterCatch ==
    /\ consumer.pc = "delete"
    /\ FaultAllowed
    /\ metrics' = [metrics EXCEPT !.failed = @ + 1]
    /\ consumer' = [pc |-> "delay", batch |-> <<>>]
    /\ UNCHANGED <<quotes, policies, now, req, lastCreate, queue>>
    /\ UNCHANGED <<sent, notificationLog, dbLogging, customers, outbox, publisher, priced, http>>

\* sqs.deleteMessage throws
deleteMessageFail ==
    /\ consumer.pc = "delete"
    /\ FaultAllowed
    /\ Failed
    /\ UNCHANGED <<quotes, policies, now, req, lastCreate, queue>>
    /\ UNCHANGED <<sent, notificationLog, dbLogging, customers, outbox, publisher, priced, http>>

\* the worker is shut down in the middle of a batch and started again
Shutdown ==
    /\ consumer.pc # "poll"
    /\ consumer' = [pc |-> "poll", batch |-> <<>>]
    /\ UNCHANGED <<quotes, policies, now, req, lastCreate, queue, metrics>>
    /\ UNCHANGED <<sent, notificationLog, dbLogging, customers, outbox, publisher, priced, http>>

(* ----------------------- Event Outbox & Publisher --------------------- *)
\* the variables the Publisher and the outbox leave alone
notOutboxVars == <<quotes, policies, now, req, lastCreate, metrics,
                  consumer, sent, notificationLog, dbLogging, customers,
                  priced, http>>

\* the issuance transaction inserts OutboxEvent{POLICY_ISSUED, PENDING} for
\* the policy it creates; brokerAccepts tells whether the queue will take
\* the row's message (FALSE: every publish of it is refused)
insertOutboxEvent(brokerAccepts) ==
    /\ outbox' = Append(outbox, [policyId |-> Len(outbox) + 1,
                                 customerId |-> 1,
                                 publishStatus |-> "PENDING",
                                 createdAt |-> Len(outbox) + 1,
                                 brokerAccepts |-> brokerAccepts])
    /\ UNCHANGED <<publisher, queue>>
    /\ UNCHANGED notOutboxVars

PendingRows == {r \in Ids(outbox) : outbox[r].publishStatus = "PENDING"}

\* the first n elements of a sequence
FirstN(sq, n) == SubSeq(sq, 1, IF Len(sq) < n THEN Len(sq) ELSE n)

\* the messages the queue may hold in OutboxSpec
MaxSends == MaxOutbox + 1

\* drain(): select at most BatchSize PENDING rows ordered by createdAt
drainSelect ==
    /\ publisher.pc = "idle"
    /\ PendingRows # {}
    /\ publisher' = [pc |-> "publish", batch |-> FirstN(InOrder(PendingRows), BatchSize)]
    /\ UNCHANGED <<outbox, queue>>
    /\ UNCHANGED notOutboxVars

\* drain() goes on to the next row of its batch, or ends
NextRow == IF Len(publisher.batch) > 1
           THEN [pc |-> "publish", batch |-> Tail(publisher.batch)]
           ELSE [pc |-> "idle", batch |-> <<>>]

\* the publish of the current row is acknowledged by the broker
drainPublishAck ==
    /\ publisher.pc = "publish"
    /\ outbox[Head(publisher.batch)].brokerAccepts
    /\ Len(queue) < MaxSends
    /\ LET row == outbox[Head(publisher.batch)]
       IN queue' = sqsSend(queue, PolicyIssuedBody(row.policyId, row.customerId))
    /\ publisher' = [publisher EXCEPT !.pc = "mark"]
    /\ UNCHANGED outbox
    /\ UNCHANGED notOutboxVars

\* (mutant) a failed publish ends the drain(): the rest of the batch is dropped
drainPublishFail_AbortsBatch(delivered) ==
    /\ publisher.pc = "publish"
    /\ delivered => /\ outbox[Head(publisher.batch)].brokerAccepts
                    /\ Len(queue) < MaxSends
    /\ LET row == outbox[Head(publisher.batch)]
       IN queue' = IF delivered
                   THEN sqsSend(queue, PolicyIssuedBody(row.policyId, row.customerId))
                   ELSE queue
    /\ publisher' = [pc |-> "idle", batch |-> <<>>]
    /\ UNCHANGED outbox
    /\ UNCHANGED notOutboxVars

\* (mutant) the row is marked PUBLISHED whatever the outcome of its publish
drainPublishFail_MarksAnyway(delivered) ==
    /\ publisher.pc = "publish"
    /\ delivered => /\ outbox[Head(publisher.batch)].brokerAccepts
                    /\ Len(queue) < MaxSends
    /\ LET row == outbox[Head(publisher.batch)]
       IN queue' = IF delivered
                   THEN sqsSend(queue, PolicyIssuedBody(row.policyId, row.customerId))
                   ELSE queue
    /\ publisher' = NextRow
    /\ outbox' = [outbox EXCEPT ![Head(publisher.batch)].publishStatus = "PUBLISHED"]
    /\ UNCHANGED notOutboxVars

\* the publish of the current row fails: the row stays PENDING; with
\* delivered the broker took the message and its acknowledgment was lost
drainPublishFail(delivered) ==
    /\ publisher.pc = "publish"
    /\ delivered => /\ outbox[Head(publisher.batch)].brokerAccepts
                    /\ Len(queue) < MaxSends
    /\ LET row == outbox[Head(publisher.batch)]
       IN queue' = IF delivered
                   THEN sqsSend(queue, PolicyIssuedBody(row.policyId, row.customerId))
                   ELSE queue
    /\ publisher' = NextRow
    /\ UNCHANGED outbox
    /\ UNCHANGED notOutboxVars

\* on the acknowledgment the Publisher marks the row PUBLISHED
drainMark ==
    /\ publisher.pc = "mark"
    /\ outbox' = [outbox EXCEPT ![Head(publisher.batch)].publishStatus = "PUBLISHED"]
    /\ publisher' = NextRow
    /\ UNCHANGED queue
    /\ UNCHANGED notOutboxVars

\* the Publisher process stops in the middle of a drain() and starts again
publisherCrash ==
    /\ publisher.pc # "idle"
    /\ publisher' = [pc |-> "idle", batch |-> <<>>]
    /\ UNCHANGED <<outbox, queue>>
    /\ UNCHANGED notOutboxVars

(* --------------------------- specification ---------------------------- *)
\* the Policy Service with at most nq quotes and nr accept requests
IssuanceNext(nq, nr) ==
    \/ /\ Len(quotes) < nq
       /\ \E c \in CustomerIds, a \in CoverageAmounts, t \in TermYearsValues :
             createQuote(c, a, t)
    \/ /\ BagCardinality(req) < nr
       /\ \E q \in 1..(Len(quotes) + 1) : AcceptFetch(q)
    \/ \E x \in Reqs : AcceptCreatePolicy(x)
    \/ \E x \in Reqs : AcceptUpdateQuote(x)
    \/ \E x \in Reqs : AcceptCommit(x)
    \/ \E x \in Reqs : AcceptTxnFail(x)
    \/ \E x \in Reqs : AcceptPublish(x)
    \/ \E x \in Reqs : AcceptRespond(x)
    \/ \E x \in Reqs : Crash(x)
    \/ \E q \in Ids(quotes) : expireQuote(q)
    \/ Tick

Next == IssuanceNext(NumQuotes, NumReq)

Spec == Init /\ [][Next]_vars

\* the Policy Service with one quote more than in Spec and two accept
\* requests, which may be on different quotes and may overlap
ConcurrentSpec == Init /\ [][IssuanceNext(NumQuotes + 1, 2)]_vars

\* the outbox and the Publisher
OutboxNext ==
    \/ /\ Len(outbox) < MaxOutbox
       /\ \E b \in BOOLEAN : insertOutboxEvent(b)
    \/ drainSelect
    \/ drainPublishAck
    \/ \E d \in BOOLEAN : drainPublishFail(d)
    \/ drainMark
    \/ publisherCrash

OutboxSpec == Init /\ [][OutboxNext]_vars

\* the Publisher without process stops and lost acknowledgments
OutboxLiveNext ==
    \/ /\ Len(outbox) < MaxOutbox
       /\ \E b \in BOOLEAN : insertOutboxEvent(b)
    \/ drainSelect
    \/ drainPublishAck
    \/ drainPublishFail(FALSE)
    \/ drainMark

\* drain() is invoked again and again and each of its steps is taken; a row
\* the broker accepts is acknowledged when its publish is attempted often
\* enough (its failures are transient)
OutboxLiveSpec ==
    /\ Init /\ [][OutboxLiveNext]_vars
    /\ WF_vars(drainSelect)
    /\ WF_vars(drainPublishAck \/ drainPublishFail(FALSE))
    /\ SF_vars(drainPublishAck)
    /\ WF_vars(drainMark)

\* POST /quotes alone
PricingNext ==
    /\ Len(quotes) < NumPricedQuotes
    /\ \E c \in CustomerIds, a \in PricingCoverageAmounts, t \in TermYearsValues :
          createQuote(c, a, t)

PricingSpec == PricingInit /\ [][PricingNext]_vars

\* calculatePremium applied directly, to any customer and any arguments
DirectNext ==
    \E c \in Customers, a \in DirectCoverageAmounts, t \in DirectTermYears :
        callCalculatePremium(c, a, t)

DirectSpec == PricingInit /\ [][DirectNext]_vars

\* lifeshield-api: requests pass the middleware chain one after the other
HttpNext ==
    \/ /\ http.served < MaxHttp
       /\ \E m \in HttpMethods, p \in HttpPaths, h \in HeaderValues, b \in HttpBodies :
             httpRequest(m, p, h, b)
    \/ cors
    \/ expressJson
    \/ requestIdMiddleware
    \/ timingMiddleware
    \/ healthRouter
    \/ \E o \in {"ok", "forwarded", "unhandled"} : metricsHandler(o)
    \/ notFound
    \/ errorHandler
    \/ resFinish
    \/ connectionClose

HttpSpec == Init /\ [][HttpNext]_vars

\* the queue and the Notification Service
ConsumerNext ==
    \/ /\ Len(queue) < MaxMsgs
       /\ \E body \in Bodies : Enqueue(body)
    \/ \E S \in SUBSET Ids(queue) : receiveMessage(S)
    \/ handleMessage
    \/ logNotification
    \/ logNotificationFail
    \/ deleteMessage
    \/ deleteMessageFail
    \/ Shutdown
    \/ \E m \in Ids(queue) : VisibilityTimeout(m)

ConsumerSpec == Init /\ [][ConsumerNext]_vars

\* the queue and the Notification Service with one POLICY_ISSUED and one
\* malformed message, and with receive calls that fail (outer catch, delay);
\* the worker's while (true) loop takes each of its steps, a receive call
\* succeeds again and again while messages are available (fair polling),
\* and the queue lets every visibility timeout run out
ConsumerLiveNext ==
    \/ /\ Len(queue) < MaxMsgs
       /\ \E body \in {PolicyIssuedBody(1, 1), MalformedBody} : Enqueue(body)
    \/ \E S \in SUBSET Ids(queue) : receiveMessage(S)
    \/ receiveMessageFail
    \/ delay
    \/ handleMessage
    \/ logNotification
    \/ logNotificationFail
    \/ deleteMessage
    \/ deleteMessageFail
    \/ Shutdown
    \/ \E m \in Ids(queue) : VisibilityTimeout(m)

ConsumerLiveSpec ==
    /\ Init /\ [][ConsumerLiveNext]_vars
    /\ SF_vars(\E S \in SUBSET Ids(queue) : receiveMessage(S))
    /\ WF_vars(delay)
    /\ WF_vars(handleMessage)
    /\ WF_vars(logNotification \/ logNotificationFail)
    /\ WF_vars(deleteMessage \/ deleteMessageFail)
    /\ \A m \in 1..MaxMsgs : WF_vars(m \in Ids(queue) /\ VisibilityTimeout(m))

(* ------------------------------- claims ------------------------------- *)
\* the request contexts on quote q, and those that ended with a given result
ReqsOn(q) == {x \in Reqs : x.quoteId = q}
Ended(q, result) == {x \in ReqsOn(q) : x.pc = "done" /\ x.result = result}

\* the NotificationLog rows that record the business key (policyId, eventType)
LedgerEntries(p, type) ==
    LET rows == {row \in BagToSet(notificationLog) :
                    row.policyId = p /\ row.type = type}
    IN IF rows = {} THEN 0
       ELSE CopiesIn(CHOOSE row \in rows : TRUE, notificationLog)

IsPolicyIssued(m) ==
    queue[m].body.wellFormed /\ queue[m].body.type = "POLICY_ISSUED"

\* C1: when N >= 2 accept calls on one quote have all been answered, none of
\* them hit by a database failure, exactly one was answered with the Policy,
\* the N-1 others with 409 Conflict (none with 500), and the quote has
\* exactly one Policy.
C1_ExactlyOneAccept ==
    \A q \in Ids(quotes) :
        ( /\ Count(ReqsOn(q)) >= 2
          /\ \A x \in ReqsOn(q) :
                x.pc = "done" /\ x.result \in {"POLICY", "CONFLICT", "ERROR"}
          /\ Ended(q, "POLICY") # {} )
        => /\ Count(Ended(q, "POLICY")) = 1
           /\ Count(Ended(q, "CONFLICT")) = Count(ReqsOn(q)) - 1
           /\ Cardinality(PoliciesOfQuote(q)) = 1

\* C2: in every committed state a quote has a Policy if and only if its
\* status is ACCEPTED, and it has at most one Policy.
C2_PolicyIffAccepted ==
    \A q \in Ids(quotes) :
        /\ (PoliciesOfQuote(q) # {}) <=> (quotes[q].status = "ACCEPTED")
        /\ Cardinality(PoliciesOfQuote(q)) <= 1

\* C3: a transaction that fails leaves nothing behind: as long as no accept
\* call on a quote has committed (its calls are still inside the transaction,
\* failed, were refused or crashed before the commit) the quote is not
\* ACCEPTED, has no Policy, and no event on the queue names a policy that does
\* not exist; the failing step itself changes neither table nor the queue.
C3_NothingCommitted(q) == \A x \in ReqsOn(q) : x.policyId = 0
C3_RollbackLeavesNothing ==
    /\ \A q \in Ids(quotes) :
          C3_NothingCommitted(q) =>
             /\ quotes[q].status \in {"PENDING", "EXPIRED"}
             /\ PoliciesOfQuote(q) = {}
    /\ \A m \in Ids(queue) : IsPolicyIssued(m) => queue[m].body.policyId \in Ids(policies)
    /\ \A p \in Ids(policies) : \E x \in ReqsOn(policies[p].quoteId) : x.policyId = p

\* C3 witness: on one quote an accept call failed inside its transaction and
\* another accept call succeeded, leaving exactly one Policy.
C3_Witness ==
    \E q \in Ids(quotes) :
        /\ Ended(q, "DB_ERROR") # {}
        /\ Ended(q, "POLICY") # {}
        /\ Cardinality(PoliciesOfQuote(q)) = 1
        /\ quotes[q].status = "ACCEPTED"

\* C4: a quote's status only ever changes from PENDING to ACCEPTED or from
\* PENDING to EXPIRED, and no quote row disappears.
C4_StatusTransitions ==
    [][ \A q \in Ids(quotes) :
           /\ q \in Ids(quotes')
           /\ quotes'[q].status # quotes[q].status =>
                 /\ quotes[q].status = "PENDING"
                 /\ quotes'[q].status \in {"ACCEPTED", "EXPIRED"} ]_vars

\* C5: an accept call that begins on a quote whose status is ACCEPTED or
\* EXPIRED, or on a quote for which an earlier call was already answered with
\* the Policy, is answered 409 Conflict and changes no quote, no policy and
\* no event.
C5_NonPendingConflict ==
    [][ \A y \in BagToSet(req') :
           ( /\ req' = req (+) SetToBag({y})
             /\ y.quoteId \in Ids(quotes)
             /\ \/ quotes[y.quoteId].status \in {"ACCEPTED", "EXPIRED"}
                \/ Ended(y.quoteId, "POLICY") # {} )
           => /\ y = DoneReq(y.quoteId, "CONFLICT", 0)
              /\ UNCHANGED <<quotes, policies, queue>> ]_vars

\* C5 witness: two calls on one quote, one answered with the Policy and one
\* with 409 Conflict, and the quote has its one Policy.
C5_Witness ==
    \E q \in Ids(quotes) :
        /\ Ended(q, "POLICY") # {}
        /\ Ended(q, "CONFLICT") # {}
        /\ Cardinality(PoliciesOfQuote(q)) = 1

\* C6: in every committed state each Policy has exactly one POLICY_ISSUED
\* event naming it, and every POLICY_ISSUED event names an existing Policy
\* (the event appears in the same step as the Policy).
C6_EventWithPolicy ==
    /\ \A p \in Ids(policies) : Cardinality(MessagesOfPolicy(p)) = 1
    /\ \A m \in Ids(queue) : IsPolicyIssued(m) => queue[m].body.policyId \in Ids(policies)

\* C7: the POLICY_ISSUED event of a committed Policy is published even if the
\* process crashes after the commit: once no request that could still publish
\* it is in flight, the event of every Policy is on the queue.
C7_PublishedAfterCrash ==
    \A p \in Ids(policies) :
        (\A x \in Reqs : x.policyId = p => ~InFlight(x))
        => MessagesOfPolicy(p) # {}

\* C8: a delivery of a POLICY_ISSUED message whose notification has already
\* been sent by an earlier, completed delivery produces no second
\* notification and no further ledger entry.
C8_SecondDeliveryNoEffect ==
    [][ ( /\ consumer.pc = "handle"
          /\ IsPolicyIssued(Head(consumer.batch))
          /\ queue[Head(consumer.batch)].receives >= 2
          /\ CopiesIn(queue[Head(consumer.batch)].body.policyId, sent) >= 1 )
        => /\ sent' = sent
           /\ consumer'.pc # "log" ]_vars

\* C9: for every business key the notification side effect has been
\* performed at most once, whatever the number of deliveries.
C9_AtMostOnce ==
    \A p \in BagToSet(sent) : CopiesIn(p, sent) <= 1

\* C10: a POLICY_ISSUED message is deleted only when its notification was
\* sent and its business key is in the ledger.
C10_DeleteOnlyAfterLedger ==
    \A m \in Ids(queue) :
        (IsPolicyIssued(m) /\ queue[m].state = "deleted")
        => /\ CopiesIn(queue[m].body.policyId, sent) >= 1
           /\ LedgerEntries(queue[m].body.policyId, "POLICY_ISSUED") >= 1

\* C11: a message whose body cannot be parsed is dead-lettered by the worker
\* at its first delivery: it is never deleted, it is never delivered a second
\* time with the same body, and the step that handles it moves the loop on to
\* the next message of the batch (or to the next poll).
IsMalformed(m) == ParseFails(queue[m].body)
C11_PoisonDeadLettered ==
    [][ /\ \A m \in Ids(queue) :
              IsMalformed(m) =>
                 /\ queue'[m].state # "deleted"
                 /\ queue[m].receives >= 1 => queue'[m].receives = queue[m].receives
        /\ ( consumer.pc = "handle" /\ IsMalformed(Head(consumer.batch))
             /\ consumer' # consumer )
           => consumer' \in {NextMessage, [pc |-> "poll", batch |-> <<>>]} ]_vars

\* C12: every Policy row has status ACTIVE and an endDate that is its
\* startDate plus the termYears of the quote it was issued from.
C12_PolicyActiveWithTerm ==
    \A p \in Ids(policies) :
        /\ policies[p].status = "ACTIVE"
        /\ policies[p].quoteId \in Ids(quotes)
        /\ policies[p].endDate =
              policies[p].startDate + quotes[policies[p].quoteId].termYears

\* C12 witness: a Policy issued after its quote was created, from a quote
\* with a positive term, returned to the caller.
C12_Witness ==
    \E p \in Ids(policies) :
        /\ quotes[policies[p].quoteId].termYears > 0
        /\ policies[p].startDate > quotes[policies[p].quoteId].createdAt
        /\ policies[p].endDate > policies[p].startDate
        /\ \E x \in Ended(policies[p].quoteId, "POLICY") : x.policyId = p

\* the age bracket of the pricing rules (<= 30, > 30, > 40, > 50) and the
\* rank of an occupation risk tier
AgeBracket(age) == IF age > 50 THEN 3 ELSE IF age > 40 THEN 2 ELSE IF age > 30 THEN 1 ELSE 0
RiskTier(occupationRisk) ==
    IF occupationRisk = "HIGH" THEN 2 ELSE IF occupationRisk = "MEDIUM" THEN 1 ELSE 0
\* the customer whose risk factors priced quote q
CustomerOf(q) == customers[quotes[q].customerId]
\* the premium of the coverage and term of quote q for a customer d
PremiumFor(q, d) == calculatePremium(d, quotes[q].coverageAmount, quotes[q].termYears)

\* C13: the premium is a function of the inputs (two quotes priced from the
\* same inputs carry the same premium), and the premium of a quote is not
\* above the premium the same coverage and term get when only the age moves
\* to the same or a higher bracket, only smoker goes from false to true, or
\* only the occupation risk moves to the same or a higher tier.
C13_PremiumMonotone ==
    /\ \A q1, q2 \in Ids(quotes) :
          ( /\ quotes[q1].customerId = quotes[q2].customerId
            /\ quotes[q1].coverageAmount = quotes[q2].coverageAmount
            /\ quotes[q1].termYears = quotes[q2].termYears )
          => quotes[q1].monthlyPremium = quotes[q2].monthlyPremium
    /\ \A q \in Ids(quotes) :
          /\ \A a \in Ages :
                AgeBracket(a) >= AgeBracket(CustomerOf(q).age)
                => PremiumFor(q, [CustomerOf(q) EXCEPT !.age = a])
                      >= quotes[q].monthlyPremium
          /\ PremiumFor(q, [CustomerOf(q) EXCEPT !.smoker = TRUE])
                >= quotes[q].monthlyPremium
          /\ \A r \in OccupationRisks :
                RiskTier(r) >= RiskTier(CustomerOf(q).occupationRisk)
                => PremiumFor(q, [CustomerOf(q) EXCEPT !.occupationRisk = r])
                      >= quotes[q].monthlyPremium

\* C13 witness: two quotes priced from the same inputs, for a non-smoking
\* customer in the second age bracket with a MEDIUM occupation, whose premium
\* is positive and strictly below that of each higher bracket, of a smoker
\* and of the HIGH tier.
C13_Witness ==
    \E q1, q2 \in Ids(quotes) :
        /\ q1 # q2
        /\ quotes[q1].coverageAmount = quotes[q2].coverageAmount
        /\ quotes[q1].monthlyPremium > 0
        /\ CustomerOf(q1) = [age |-> 31, smoker |-> FALSE, occupationRisk |-> "MEDIUM"]
        /\ PremiumFor(q1, [CustomerOf(q1) EXCEPT !.age = 41]) > quotes[q1].monthlyPremium
        /\ PremiumFor(q1, [CustomerOf(q1) EXCEPT !.age = 51])
              > PremiumFor(q1, [CustomerOf(q1) EXCEPT !.age = 41])
        /\ PremiumFor(q1, [CustomerOf(q1) EXCEPT !.smoker = TRUE]) > quotes[q1].monthlyPremium
        /\ PremiumFor(q1, [CustomerOf(q1) EXCEPT !.occupationRisk = "HIGH"])
              > quotes[q1].monthlyPremium

\* C14: the premium p (in cents) of every quote is coverageAmount x 0.0005 x
\* m / 12 rounded half-up to the cent, i.e. the exact amount
\* coverageAmount * m100 / 24000 cents lies in [p - 1/2, p + 1/2), where
\* m100 (the multiplier in hundredths) is 100, plus one age term (30 above
\* 50, else 20 above 40, else 10 above 30, else 0), plus 50 for a smoker,
\* plus 10 for MEDIUM or 25 for HIGH; a non-smoker of 35 with a LOW
\* occupation pays 458.33 a month for a coverage of 10,000,000 (m = 1.1).
C14_PremiumFormula ==
    \A q \in Ids(quotes) :
        LET c == CustomerOf(q)
            p == quotes[q].monthlyPremium
            m100 == 100
                    + (IF c.age > 50 THEN 30 ELSE IF c.age > 40 THEN 20
                       ELSE IF c.age > 30 THEN 10 ELSE 0)
                    + (IF c.smoker THEN 50 ELSE 0)
                    + (CASE c.occupationRisk = "MEDIUM" -> 10
                         [] c.occupationRisk = "HIGH" -> 25
                         [] OTHER -> 0)
            exact == quotes[q].coverageAmount * m100
        IN /\ 24000 * p - 12000 <= exact
           /\ exact < 24000 * p + 12000
           /\ ( c = [age |-> 35, smoker |-> FALSE, occupationRisk |-> "LOW"]
                /\ quotes[q].coverageAmount = 10000000 ) => p = 45833

\* C14 witness: a customer aged exactly 50, smoker, HIGH occupation
\* (m = 1.0 + 0.2 + 0.5 + 0.25) has one quote whose exact premium of 6.5
\* cents is rounded up to 7 and one quote over 10,000,000.
C14_Witness ==
    \E q1, q2 \in Ids(quotes) :
        /\ CustomerOf(q1) = [age |-> 50, smoker |-> TRUE, occupationRisk |-> "HIGH"]
        /\ quotes[q1].coverageAmount = 800
        /\ quotes[q1].monthlyPremium = 7
        /\ quotes[q2].coverageAmount = 10000000
        /\ quotes[q2].monthlyPremium = 81250

\* C15: the POLICY_ISSUED event of a committed Policy is published exactly
\* once: the queue never holds two messages naming the Policy, and once the
\* request that issued it has run to its end (no step of it is left that
\* could still publish) the queue holds one.
C15_PublishedExactlyOnce ==
    \A p \in Ids(policies) :
        /\ Cardinality(MessagesOfPolicy(p)) <= 1
        /\ (\A x \in Reqs : x.policyId = p => x.pc \in {"done", "crashed"})
           => Cardinality(MessagesOfPolicy(p)) = 1

\* C16: every POLICY_ISSUED message on the queue names a Policy row that is
\* committed, and a message is sent only by the publish step of a request
\* whose transaction has committed, for the Policy that request committed:
\* no step of a request that failed, was refused or was rolled back sends one.
C16_NoFabricatedEvent ==
    [][ /\ \A m \in Ids(queue') :
              (queue'[m].body.wellFormed /\ queue'[m].body.type = "POLICY_ISSUED")
              => queue'[m].body.policyId \in Ids(policies')
        /\ queue' # queue =>
              \E x \in Reqs :
                 /\ x.pc = "committed"
                 /\ x.policyId \in Ids(policies)
                 /\ policies[x.policyId].quoteId = x.quoteId
                 /\ \E c \in Customers :
                       queue' = Append(queue, [body |-> PolicyIssuedBody(x.policyId, c),
                                               state |-> "visible", receives |-> 0])
                 /\ policies' = policies ]_vars

\* C16 witness: on one quote, one request failed inside its transaction
\* and was rolled back, another was answered with the Policy, and the queue
\* holds exactly one message, naming that Policy.
C16_Witness ==
    \E q \in Ids(quotes) :
        /\ Ended(q, "DB_ERROR") # {}
        /\ \E x \in Ended(q, "POLICY") :
              /\ Len(queue) = 1
              /\ MessagesOfPolicy(x.policyId) = {1}
        /\ Len(policies) = 1

\* C17: a POST /quotes with positive coverageAmount and termYears for an
\* existing customer adds exactly one row to quotes, with the request's
\* values, status PENDING and the premium of the pricing function, and is
\* answered with the quote; with a non-positive input or an unknown customer
\* it is answered InvalidInput or CustomerNotFound (the one that applies) and
\* leaves quotes as it was.
C17_CreateQuote ==
    [][ \A c \in CustomerIds, a \in PricingCoverageAmounts, t \in TermYearsValues :
           createQuote(c, a, t) =>
              IF a > 0 /\ t > 0 /\ c \in DOMAIN customers
              THEN /\ Len(quotes') = Len(quotes) + 1
                   /\ \A q \in Ids(quotes) : quotes'[q] = quotes[q]
                   /\ LET row == quotes'[Len(quotes')]
                      IN /\ row.customerId = c
                         /\ row.coverageAmount = a
                         /\ row.termYears = t
                         /\ row.status = "PENDING"
                         /\ row.monthlyPremium = calculatePremium(customers[c], a, t)
                   /\ lastCreate' = "CREATED"
              ELSE /\ quotes' = quotes
                   /\ lastCreate' \in
                         (IF a <= 0 \/ t <= 0 THEN {"INVALID_INPUT"} ELSE {})
                         \cup (IF c \notin DOMAIN customers
                               THEN {"CUSTOMER_NOT_FOUND"} ELSE {}) ]_vars

\* C17 witness: one quote with a positive premium was stored, then a request
\* for an unknown customer was refused and left the one quote.
C17_Witness ==
    /\ Len(quotes) = 1
    /\ quotes[1].status = "PENDING"
    /\ quotes[1].monthlyPremium > 0
    /\ metrics.quotesCreated = 1
    /\ lastCreate = "CUSTOMER_NOT_FOUND"

\* C18: handling a well-formed message of a type the worker does not know
\* sends no notification, writes no NotificationLog row, counts no failure
\* and leads to the delete of that message; the delete removes it from the
\* queue and counts it as processed; no NotificationLog row ever carries a
\* type other than POLICY_ISSUED.
IsUnknownType(m) ==
    queue[m].body.wellFormed /\ queue[m].body.type # "POLICY_ISSUED"
C18_UnknownTypeDeleted ==
    [][ /\ (handleMessage /\ IsUnknownType(Head(consumer.batch)))
           => /\ consumer' = [pc |-> "delete", batch |-> consumer.batch]
              /\ UNCHANGED <<sent, notificationLog, metrics, queue>>
        /\ (deleteMessage /\ IsUnknownType(Head(consumer.batch)))
           => /\ queue'[Head(consumer.batch)].state = "deleted"
              /\ metrics'.failed = metrics.failed
              /\ metrics'.processed = metrics.processed + 1
              /\ UNCHANGED <<sent, notificationLog>>
        /\ \A row \in BagToSet(notificationLog') : row.type = "POLICY_ISSUED" ]_vars

\* C18 witness: a message of an unknown type has been delivered once and
\* deleted; it was counted as processed, no failure was counted, nothing
\* was sent or logged.
C18_Witness ==
    \E m \in Ids(queue) :
        /\ IsUnknownType(m)
        /\ queue[m].state = "deleted"
        /\ metrics.processed = 1
        /\ metrics.failed = 0
        /\ sent = EmptyBag
        /\ notificationLog = EmptyBag

\* C19: when an accept request has been answered with a Policy, a
\* POLICY_ISSUED message naming that Policy is on the queue, and the Policy
\* is committed (commit, then publish, then the response).
C19_EnqueuedBeforeResponse ==
    \A x \in Reqs :
        (x.pc = "done" /\ x.result = "POLICY")
        => /\ x.policyId \in Ids(policies)
           /\ MessagesOfPolicy(x.policyId) # {}

\* C19 witness: a request was answered with Policy 1, policies_issued_total
\* is 1 and the first message of the queue names Policy 1.
C19_Witness ==
    /\ DoneReq(1, "POLICY", 1) \in Reqs
    /\ metrics.policiesIssued = 1
    /\ Len(queue) >= 1
    /\ queue[1].body = PolicyIssuedBody(1, policies[1].customerId)

\* C20: no two Policy rows ever carry the same policyNumber, and a commit
\* whose policyNumber is already taken is rolled back: it adds no Policy,
\* leaves the quote as it was and the request is answered with an error.
C20_UniquePolicyNumber ==
    [][ /\ \A p1, p2 \in Ids(policies') :
              p1 # p2 => policies'[p1].policyNumber # policies'[p2].policyNumber
        /\ \A x \in Reqs :
              ( /\ AcceptCommit(x)
                /\ \E p \in Ids(policies) :
                      policies[p].policyNumber = x.txnPolicy[1].policyNumber )
              => /\ policies' = policies
                 /\ quotes' = quotes
                 /\ req' = Step(x, DoneReq(x.quoteId, "ERROR", 0)) ]_vars

\* C20 witness: two Policies for different quotes were created at the same
\* instant and both requests were answered with their Policy.
C20_Witness ==
    \E p1, p2 \in Ids(policies) :
        /\ policies[p1].quoteId # policies[p2].quoteId
        /\ policies[p1].startDate = policies[p2].startDate
        /\ policies[p1].policyNumber[2] = policies[p2].policyNumber[2]
        /\ Ended(policies[p1].quoteId, "POLICY") # {}
        /\ Ended(policies[p2].quoteId, "POLICY") # {}

\* C21: no OutboxEvent row disappears; a row's publishStatus changes only
\* from PENDING to PUBLISHED, only in the Publisher's marking step for that
\* row, which follows the broker's acknowledgment (the message of the row is
\* on the queue); every PUBLISHED row has its message on the queue.
C21_PublishedOnlyAfterAck ==
    [][ /\ \A r \in Ids(outbox) :
              /\ r \in Ids(outbox')
              /\ outbox'[r].publishStatus # outbox[r].publishStatus =>
                    /\ outbox[r].publishStatus = "PENDING"
                    /\ outbox'[r].publishStatus = "PUBLISHED"
                    /\ publisher.pc = "mark"
                    /\ Head(publisher.batch) = r
                    /\ MessagesOfPolicy(outbox[r].policyId) # {}
        /\ \A r \in Ids(outbox') :
              outbox'[r].publishStatus = "PUBLISHED" =>
                 \E m \in Ids(queue') :
                    queue'[m].body = PolicyIssuedBody(outbox'[r].policyId,
                                                      outbox'[r].customerId) ]_vars

\* C21 witness: one row is PUBLISHED, and another row is still PENDING
\* although its message is on the queue (its acknowledgment was lost or the
\* Publisher stopped before marking it).
C21_Witness ==
    \E r1, r2 \in Ids(outbox) :
        /\ outbox[r1].publishStatus = "PUBLISHED"
        /\ outbox[r2].publishStatus = "PENDING"
        /\ MessagesOfPolicy(outbox[r2].policyId) # {}
        /\ publisher.pc = "idle"

\* C22: a failed publish inside a drain() batch writes no outbox row (the
\* failed row stays PENDING) and drain() goes on to attempt the next row of
\* the batch; an acknowledged row is marked PUBLISHED, no other row is
\* written, and drain() goes on in the same way.
RestOfBatch == IF Len(publisher.batch) > 1
               THEN [pc |-> "publish", batch |-> Tail(publisher.batch)]
               ELSE [pc |-> "idle", batch |-> <<>>]
C22_FailureDoesNotBlockBatch ==
    [][ /\ \A d \in BOOLEAN :
              drainPublishFail(d) => /\ outbox' = outbox
                                     /\ publisher' = RestOfBatch
        /\ drainMark =>
              /\ outbox'[Head(publisher.batch)].publishStatus = "PUBLISHED"
              /\ \A r \in Ids(outbox) : r # Head(publisher.batch) => outbox'[r] = outbox[r]
              /\ publisher' = RestOfBatch ]_vars

\* C22 witness: the oldest row, which the broker refuses, is still PENDING
\* and the second row, selected behind it in the same batch, is PUBLISHED.
C22_Witness ==
    /\ Len(outbox) >= 2
    /\ outbox[1].publishStatus = "PENDING"
    /\ ~outbox[1].brokerAccepts
    /\ outbox[2].publishStatus = "PUBLISHED"

\* C28: every OutboxEvent row that the broker accepts is eventually marked
\* PUBLISHED, whatever the older rows do (also when BatchSize older rows
\* fail on every drain cycle).
RowPublished(r) == r \in Ids(outbox) /\ outbox[r].publishStatus = "PUBLISHED"
RowPublishable(r) == r \in Ids(outbox) /\ outbox[r].brokerAccepts
C28_NoStarvation ==
    \A r \in 1..MaxOutbox : RowPublishable(r) ~> RowPublished(r)

\* C23: when the NotificationLog write or the delete of a message fails, the
\* queue is left as it is (the message is not deleted and not received
\* again by that step), one failure is counted, and the loop goes on to the
\* next message of the batch, or polls again after the last one, without the
\* failed message; when the receive call fails the loop waits and polls
\* again, and the queue is left as it is.
C23_FailureKeepsLoopRunning ==
    [][ /\ (logNotificationFail \/ deleteMessageFail)
           => /\ queue' = queue
              /\ metrics'.failed = metrics.failed + 1
              /\ metrics'.processed = metrics.processed
              /\ consumer'.batch = Tail(consumer.batch)
              /\ consumer'.pc = IF Tail(consumer.batch) = <<>> THEN "poll" ELSE "handle"
              /\ Head(consumer.batch) \notin SeqToSet(consumer'.batch)
        /\ receiveMessageFail => (consumer'.pc = "delay" /\ queue' = queue)
        /\ delay => (consumer'.pc = "poll" /\ queue' = queue) ]_vars

\* C23 witness: the delete or the log write of message 1 failed (its
\* notification was sent, it is still in flight, one failure is counted) and
\* the loop is now handling message 2.
C23_Witness ==
    /\ Len(queue) >= 2
    /\ IsPolicyIssued(1)
    /\ queue[1].state = "inflight"
    /\ CopiesIn(queue[1].body.policyId, sent) = 1
    /\ metrics.failed = 1
    /\ consumer = [pc |-> "handle", batch |-> <<2>>]

\* message m is no longer on the queue: deleted or dead-lettered
HasLeft(m) == m \in Ids(queue) /\ queue[m].state \in {"deleted", "dlq"}

C25_DifferentQuotesIndependent ==
    [][ \A x \in Reqs :
          /\ ( AcceptCommit(x) /\ PoliciesOfQuote(x.quoteId) = {} ) =>
                /\ policies' = Append(policies, x.txnPolicy[1])
                /\ x.txnPolicy[1].quoteId = x.quoteId
                /\ x.txnPolicy[1].policyNumber = PolicyNumber(x.txnPolicy[1].startDate, x.quoteId)
                /\ quotes' = [quotes EXCEPT ![x.quoteId].status = "ACCEPTED"]
                /\ \E y \in BagToSet(req') :
                      /\ y.pc = "committed"
                      /\ y.quoteId = x.quoteId
                      /\ y.policyId = Len(policies')
                      /\ req' = Step(x, y)
          /\ AcceptPublish(x) =>
                /\ policies[x.policyId].quoteId = x.quoteId
                /\ queue' = sqsSend(queue, PolicyIssuedBody(x.policyId,
                                       quotes[x.quoteId].customerId))
                /\ policies' = policies /\ quotes' = quotes ]_vars

\* C25 witness: two requests on different quotes overlapped (the second
\* committed, at the same instant, before the first was answered); both
\* quotes are ACCEPTED, each has exactly one Policy and one event, and the
\* Policy of the second quote was committed first.
C25_Witness ==
    /\ Len(quotes) = 2
    /\ Len(policies) = 2
    /\ policies[1].quoteId = 2
    /\ policies[2].quoteId = 1
    /\ policies[1].startDate = policies[2].startDate
    /\ \A q \in {1, 2} : quotes[q].status = "ACCEPTED"
    /\ \A p \in {1, 2} : Cardinality(MessagesOfPolicy(p)) = 1
    /\ Count({x \in Reqs : x.pc = "done" /\ x.result = "POLICY"}) = 2

\* C26: the expiry sweep changes a quote only when it is PENDING and older
\* than ExpireAge, and then changes nothing but its status; when it races
\* with an accept call on the same quote exactly one of the two takes
\* effect: a quote that was marked EXPIRED stays EXPIRED and never gets a
\* Policy, and a quote that was ACCEPTED is not changed by the sweep.
C26_ExpireOrAccept ==
    [][ \A q \in Ids(quotes) :
          /\ expireQuote(q) =>
                /\ quotes[q].status = "PENDING"
                /\ now - quotes[q].createdAt > ExpireAge
                /\ quotes' = [quotes EXCEPT ![q].status = "EXPIRED"]
                /\ policies' = policies /\ queue' = queue
          /\ quotes[q].status = "EXPIRED" =>
                /\ quotes'[q].status = "EXPIRED"
                /\ \A p \in Ids(policies') : policies'[p].quoteId # q
          /\ quotes[q].status = "ACCEPTED" => quotes'[q] = quotes[q] ]_vars

\* C27: a call of the pricing function with a coverageAmount or a termYears
\* that is not positive ends in a validation failure: it returns no premium,
\* in particular no zero or negative amount and not the premium of a clamped
\* input.
C27_RejectsNonPositive ==
    ( /\ priced.called
      /\ priced.coverageAmount <= 0 \/ priced.termYears <= 0 )
    => priced.threw

\* C29: requestIdMiddleware sets req.requestId and the X-Request-Id response
\* header to one value, the incoming x-request-id header when it is present
\* and not empty and otherwise an id generated for this request (no earlier
\* request got it), and calls next once: the request goes on to the next
\* middleware.
C29_RequestId ==
    [][ requestIdMiddleware =>
          /\ http'.requestId = http'.resHeader
          /\ IF http.header \in {JsUndefined, JsString(<<>>)}
             THEN /\ http'.requestId = uuidv4(http'.uuids)
                  /\ http'.uuids = http.uuids + 1
             ELSE /\ http'.requestId = http.header
                  /\ http'.uuids = http.uuids
          /\ http'.nextCalls = 1
          /\ http'.pc = "timing" ]_vars

\* C29 witness: the second request came with an empty x-request-id header
\* and got the second generated id, on req and on the response header.
C29_Witness ==
    /\ http.served = 2
    /\ http.header = JsString(<<>>)
    /\ http.requestId = uuidv4(2)
    /\ http.resHeader = uuidv4(2)
    /\ http.nextCalls = 1
    /\ http.pc = "timing"

\* C30: the two HTTP metrics change only when the response of a request
\* that passed the timing middleware finishes, and then by exactly one
\* observation: http_requests_total{method, route, status} of that response
\* goes up by one and one duration is recorded. GET /health finishes with
\* 200, an unmatched route with 404, and a request answered by the error
\* handler with 500 INTERNAL_ERROR.
C30_ObservedOnce ==
    [][ /\ ( \/ http'.requestsTotal # http.requestsTotal
             \/ http'.durations # http.durations )
           => resFinish /\ http.timed
        /\ (resFinish /\ http.timed) =>
              /\ http'.requestsTotal = http.requestsTotal (+)
                    SetToBag({<<http.method, RouteLabel, StatusString(http.statusCode)>>})
              /\ http'.durations = http.durations (+)
                    SetToBag({<<http.method, RouteLabel>>})
              /\ http.route = "/health" => http.statusCode = 200
              /\ (http.route = "" /\ http.errorCode = "") => http.statusCode = 404
              /\ http.errorCode = "INTERNAL_ERROR" => http.statusCode = 500 ]_vars

\* C30 witness: GET /health was answered 200 and a GET /metrics whose
\* handler failed was answered 500 by the error handler; each was counted
\* once and two durations were recorded.
C30_Witness ==
    /\ http.pc = "idle"
    /\ http.served = 2
    /\ http.errorCode = "INTERNAL_ERROR"
    /\ http.requestsTotal = SetToBag({<<"GET", "/health", "200">>,
                                      <<"GET", "/metrics", "500">>})
    /\ http.durations = SetToBag({<<"GET", "/health">>, <<"GET", "/metrics">>})

====
